---------------------------- MODULE Spec2Model ----------------------------
(***************************************************************************)
(* A model of spring-cloud-config (src/index.js): the SpringCloudConfig    *)
(* class, its resolution pipeline (load / _readConfig), its watcher        *)
(* (startWatch / endWatch) and the pure helpers they use.                  *)
(*                                                                         *)
(* DATA.  A JavaScript string is a sequence of atoms; an atom is a TLA+    *)
(* string standing for a run of ordinary characters, and the characters    *)
(* the code looks at ("." "," "!") are atoms of their own.  So the key     *)
(* 'spring.cloud' is <<"spring", ".", "cloud">> and the profiles value     *)
(* '!prod,dev' is <<"!", "prod", ",", "dev">>.                             *)
(* A JavaScript value is a tagged record:                                  *)
(*   [t |-> "s", v |-> string]   a string scalar                           *)
(*   [t |-> "b", b |-> BOOLEAN]  a boolean scalar                          *)
(*   [t |-> "n"]                 null                                      *)
(*   [t |-> "u"]                 undefined                                 *)
(*   [t |-> "e", msg |-> m]      an Error object                           *)
(*   [t |-> "o", kv |-> pairs]   a plain object, pairs a sequence of       *)
(*                               <<key, value>> in insertion order         *)
(*   [t |-> "a", kv |-> pairs]   an array, its keys the index strings      *)
(*                               "0", "1", ... as for..in enumerates them  *)
(***************************************************************************)
EXTENDS Integers, Sequences, FiniteSets, TLC

VARIABLES
    options,          \* this._options
    bootstrapConfig,  \* this._bootstrapConfig
    localConfig,      \* this._localConfig
    remoteConfig,     \* this._remoteConfig
    config,           \* this._config
    watchConfig,      \* this._watchConfig: [interval, running, timerId]
    timers,           \* the event loop's pending setTimeout handles
    fired,            \* how many times the watcher's timer callback has run
    watchPasses,      \* watcher passes waiting for the remote fetch to settle
    events,           \* the notifications emitted so far, in order
    passes,           \* the load() calls: each one's position and held value
    settled,          \* how the latest load() promise to settle was settled
    io,               \* the file reads and the remote fetch of the latest step
    call              \* the pure helper under test: [op, args, out]

vars == <<options, bootstrapConfig, localConfig, remoteConfig, config,
          watchConfig, timers, fired, watchPasses, events, passes, settled, io,
          call>>

-----------------------------------------------------------------------------
(* JavaScript values *)

Undefined == [t |-> "u"]
Null == [t |-> "n"]
Str(s) == [t |-> "s", v |-> s]
Bool(b) == [t |-> "b", b |-> b]
Error(m) == [t |-> "e", msg |-> m]
Obj(pairs) == [t |-> "o", kv |-> pairs]
EmptyObj == Obj(<<>>)

\* The index strings of an array, as for..in and extend see them.
IndexKeys == << <<"0">>, <<"1">>, <<"2">>, <<"3">> >>
Arr(elems) == [t |-> "a", kv |-> [i \in 1..Len(elems) |-> <<IndexKeys[i], elems[i]>>]]

IsContainer(x) == x.t \in {"o", "a"}

\* JavaScript truthiness: if (x), !x, x && y.
Truthy(x) ==
    CASE x.t = "u" -> FALSE
      [] x.t = "n" -> FALSE
      [] x.t = "b" -> x.b
      [] x.t = "s" -> x.v # <<>>
      [] OTHER -> TRUE

Keys(o) == {o.kv[i][1] : i \in DOMAIN o.kv}
Has(o, k) == IsContainer(o) /\ k \in Keys(o)

\* o[k]: undefined when o has no such property.
Get(o, k) ==
    IF Has(o, k) THEN o.kv[CHOOSE i \in DOMAIN o.kv : o.kv[i][1] = k][2]
    ELSE Undefined

\* o[k] = v: an existing property keeps its place, a new one is appended.
Put(o, k, v) ==
    IF Has(o, k)
    THEN [o EXCEPT !.kv = [i \in DOMAIN o.kv |->
                             IF o.kv[i][1] = k THEN <<k, v>> ELSE o.kv[i]]]
    ELSE [o EXCEPT !.kv = Append(o.kv, <<k, v>>)]

\* o.a.b.c for a path of keys; undefined as soon as a step is missing.
RECURSIVE GetIn(_, _)
GetIn(o, path) ==
    IF path = <<>> THEN o
    ELSE GetIn(Get(o, Head(path)), Tail(path))

\* String.prototype.split(sep) on a string of atoms.
RECURSIVE Split(_, _)
Split(s, sep) ==
    IF s = <<>> THEN << <<>> >>
    ELSE LET rest == Split(Tail(s), sep)
         IN  IF Head(s) = sep THEN << <<>> >> \o rest
             ELSE << <<Head(s)>> \o rest[1] >> \o Tail(rest)

\* Array.prototype.indexOf(x) >= 0 on an array of strings.
Includes(arr, s) == \E i \in DOMAIN arr.kv : arr.kv[i][2] = Str(s)

-----------------------------------------------------------------------------
(* extend(true, target, source): the deep merge of the 'extend' package    *)
(* that index.js calls at lines 234, 296 and 313.  Every enumerable key of *)
(* source is visited in order; an object or array value is merged          *)
(* recursively into the target's value of the same kind (or into a fresh   *)
(* {} / []), an undefined value is skipped, any other value overwrites.    *)
(* A null or undefined source is skipped.                                  *)

\* A merge without the deep flag: every value of the source overwrites.
RECURSIVE extendFrom_shallow(_, _, _)
extendFrom_shallow(target, source, i) ==
    IF i > Len(source.kv) THEN target
    ELSE LET name == source.kv[i][1]
             copy == source.kv[i][2]
         IN  extendFrom_shallow(IF copy.t # "u" THEN Put(target, name, copy) ELSE target,
                                source, i + 1)

RECURSIVE extend(_, _)
RECURSIVE extendFrom(_, _, _)
extendFrom(target, source, i) ==
    IF i > Len(source.kv) THEN target
    ELSE LET name == source.kv[i][1]
             copy == source.kv[i][2]
             src  == Get(target, name)
             clone == IF src.t = copy.t THEN src ELSE [t |-> copy.t, kv |-> <<>>]
             next == IF IsContainer(copy) THEN Put(target, name, extend(clone, copy))
                     ELSE IF copy.t # "u" THEN Put(target, name, copy)
                     ELSE target
         IN  extendFrom(next, source, i + 1)

extend(target, source) ==
    IF IsContainer(source) THEN extendFrom(target, source, 1) ELSE target

-----------------------------------------------------------------------------
(* The pure helpers of SpringCloudConfig *)

\* _mergeProperties(objects), index.js:293-299.
RECURSIVE mergeInto(_, _, _)
mergeInto(mergedConfig, objects, i) ==
    IF i > Len(objects) THEN mergedConfig
    ELSE mergeInto(extend(mergedConfig, objects[i]), objects, i + 1)

_mergeProperties(objects) == mergeInto(EmptyObj, objects, 1)

\* _createObjectForProperty(propertyKeys, propertyValue), index.js:327-338.
RECURSIVE _createObjectForProperty(_, _)
_createObjectForProperty(propertyKeys, propertyValue) ==
    IF Len(propertyKeys) = 0 THEN propertyValue
    ELSE Obj(<< <<Head(propertyKeys),
                  _createObjectForProperty(Tail(propertyKeys), propertyValue)>> >>)

\* _parsePropertiesToObjects(propertiesObject), index.js:308-317.
RECURSIVE parseFrom(_, _, _)
parseFrom(object, propertiesObject, i) ==
    IF i > Len(propertiesObject.kv) THEN object
    ELSE LET thisPropertyName == propertiesObject.kv[i][1]
             thisPropertyObject ==
                 _createObjectForProperty(Split(thisPropertyName, "."),
                                          propertiesObject.kv[i][2])
         IN  parseFrom(extend(object, thisPropertyObject), propertiesObject, i + 1)

_parsePropertiesToObjects(propertiesObject) ==
    IF Truthy(propertiesObject) /\ IsContainer(propertiesObject)
    THEN parseFrom(EmptyObj, propertiesObject, 1)
    ELSE EmptyObj

\* A loop that returns true at the first plain token that matches.
RECURSIVE profilesLoop_firstMatch(_, _, _, _)
profilesLoop_firstMatch(documentProfiles, activeProfiles, i, useThisDoc) ==
    IF i > Len(documentProfiles) THEN useThisDoc
    ELSE LET tok == documentProfiles[i]
         IN  IF tok = <<>> THEN
                 profilesLoop_firstMatch(documentProfiles, activeProfiles, i + 1,
                                         useThisDoc)
             ELSE IF Head(tok) = "!" THEN
                 IF Includes(activeProfiles, Tail(tok)) THEN FALSE
                 ELSE profilesLoop_firstMatch(documentProfiles, activeProfiles, i + 1,
                                              useThisDoc)
             ELSE IF Includes(activeProfiles, tok) THEN TRUE
             ELSE profilesLoop_firstMatch(documentProfiles, activeProfiles, i + 1,
                                          useThisDoc)

\* The loop of _shouldUseDocument, index.js:261-272: "no" is the early
\* return false of line 266, otherwise the flag useThisDoc after the loop.
RECURSIVE profilesLoop(_, _, _, _)
profilesLoop(documentProfiles, activeProfiles, i, useThisDoc) ==
    IF i > Len(documentProfiles) THEN useThisDoc
    ELSE LET tok == documentProfiles[i]
         IN  IF tok = <<>> THEN
                 profilesLoop(documentProfiles, activeProfiles, i + 1, useThisDoc)
             ELSE IF Head(tok) = "!" THEN
                 IF Includes(activeProfiles, Tail(tok)) THEN FALSE
                 ELSE profilesLoop(documentProfiles, activeProfiles, i + 1, useThisDoc)
             ELSE IF Includes(activeProfiles, tok) THEN
                 profilesLoop(documentProfiles, activeProfiles, i + 1, TRUE)
             ELSE profilesLoop(documentProfiles, activeProfiles, i + 1, useThisDoc)

\* _shouldUseDocument(document, activeProfiles), index.js:254-275.
_shouldUseDocument(document, activeProfiles) ==
    IF Truthy(document) /\ ~Truthy(Get(document, <<"profiles">>)) THEN TRUE
    ELSE IF Truthy(document) /\ Truthy(activeProfiles) THEN
        profilesLoop(Split(Get(document, <<"profiles">>).v, ","), activeProfiles, 1, FALSE)
    ELSE FALSE


-----------------------------------------------------------------------------
(* The files the program reads.  A path is a string; a file is missing,    *)
(* malformed (the YAML parser throws) or a sequence of YAML documents.     *)

SpringCloudConfigPath == << <<"spring">>, <<"cloud">>, <<"config">> >>

Missing == [kind |-> "missing"]
Malformed == [kind |-> "malformed"]
Docs(ds) == [kind |-> "docs", docs |-> ds]

\* String concatenation converts its operands: undefined reads "undefined".
StringOf(x) == IF x.t = "s" THEN x.v ELSE <<"undefined">>

BootstrapYml(dir) == dir \o <<"/", "bootstrap.yml">>
ApplicationYml(dir) == dir \o <<"/", "application.yml">>
ProfileYml(dir, profile) == dir \o <<"/", "application-">> \o profile \o <<".yml">>

Files(path) ==
    CASE path = BootstrapYml(<<"cfg">>) ->
           Docs(<< Obj(<< << <<"spring">>, Obj(<< << <<"cloud">>, Obj(<< << <<"config">>,
                       Obj(<< << <<"enabled">>, Bool(TRUE) >>,
                              << <<"name">>, Str(<<"app">>) >> >>) >> >>) >> >>) >> >>),
                   Obj(<< << <<"profiles">>, Str(<<"dev">>) >>,
                          << <<"spring", ".", "cloud", ".", "config", ".", "label">>,
                             Str(<<"devlabel">>) >> >>) >>)
      [] path = ApplicationYml(<<"cfg">>) ->
           Docs(<< Obj(<< << <<"app">>, Obj(<< << <<"port">>, Str(<<"80">>) >>,
                                               << <<"name">>, Str(<<"base">>) >> >>) >> >>),
                   Obj(<< << <<"profiles">>, Str(<<"dev">>) >>,
                          << <<"spring", ".", "cloud", ".", "config", ".", "name">>,
                             Str(<<"renamed">>) >> >>),
                   Obj(<< << <<"profiles">>, Str(<<"!", "dev">>) >>,
                          << <<"app">>, Obj(<< << <<"port">>, Str(<<"82">>) >> >>) >> >>) >>)
      [] path = ProfileYml(<<"cfg">>, <<"dev">>) ->
           Docs(<< Obj(<< << <<"app", ".", "name">>, Str(<<"dev">>) >>,
                          << <<"devOnly">>, Str(<<"x">>) >> >>) >>)
      [] path = ProfileYml(<<"cfg">>, <<"bad">>) -> Malformed
      [] path = BootstrapYml(<<"off">>) ->
           Docs(<< Obj(<< << <<"spring">>, Obj(<< << <<"cloud">>, Obj(<< << <<"config">>,
                       Obj(<< << <<"enabled">>, Bool(FALSE) >> >>) >> >>) >> >>) >> >>) >>)
      [] path = BootstrapYml(<<"plain">>) ->
           Docs(<< Obj(<< << <<"name">>, Str(<<"plain">>) >> >>) >>)
      [] path = ApplicationYml(<<"plain">>) ->
           Docs(<< Obj(<< << <<"app">>, Str(<<"plain">>) >> >>) >>)
      [] OTHER -> Missing

\* The options objects a caller passes to the constructor or setOptions.
Options(configPath, bootstrapPath, activeProfiles) ==
    [configPath |-> configPath, bootstrapPath |-> bootstrapPath,
     activeProfiles |-> activeProfiles]

OptionChoices ==
    { Options(Str(<<"cfg">>), Undefined, Arr(<<Str(<<"dev">>)>>)),
      Options(Str(<<"cfg">>), Str(<<"off">>), Arr(<<Str(<<"qa">>), Str(<<"bad">>)>>)),
      Options(Str(<<"none">>), Str(<<"cfg">>), Arr(<<>>)),
      Options(Str(<<"plain">>), Undefined, Arr(<<Str(<<"dev">>)>>)),
      Options(Undefined, Undefined, Arr(<<Str(<<"dev">>)>>)),
      Options(Str(<<"cfg">>), Undefined, Undefined) }

\* What cloudConfigClient.load(options) can do: throw synchronously, or
\* return a promise that later resolves with a Config whose forEach yields
\* flat properties, resolves with nothing, or rejects with an Error.
RemoteProperties ==
    Obj(<< << <<"app", ".", "port">>, Str(<<"9000">>) >>,
           << <<"remote">>, Str(<<"r">>) >> >>)

RemoteResults ==
    { [how |-> "resolve", value |-> RemoteProperties],
      [how |-> "resolve", value |-> Undefined],
      [how |-> "reject", value |-> Error("fetch failed")] }

-----------------------------------------------------------------------------
(* Bounds *)

\* How many load() calls a behaviour makes.
MaxLoads == 2
\* How many timers a behaviour creates (calls of setTimeout).
MaxTimers == 3
\* How many atoms the profiles string of a document has at most.
MaxProfilesLen == 4
\* How many names an ActiveProfiles array has at most.
MaxActiveProfiles == 2
\* How many PropertySets _mergeProperties is given at most.
MaxInputs == 2
\* How many documents a source has at most.
MaxDocs == 3
\* How many elements an array of a PropertySet has at most.
MaxArrayLen == 1

-----------------------------------------------------------------------------
(* Reading the sources *)

\* o.a.b = v along a path of keys whose containers exist.
RECURSIVE PutIn(_, _, _)
PutIn(o, path, v) ==
    IF Len(path) = 1 THEN Put(o, Head(path), v)
    ELSE Put(o, Head(path), PutIn(Get(o, Head(path)), Tail(path), v))

\* The callback of yaml.safeLoadAll in _readYaml, index.js:232-236, over
\* the file's documents in order.
RECURSIVE readYamlFrom(_, _, _, _)
readYamlFrom(doc, docs, activeProfiles, i) ==
    IF i > Len(docs) THEN doc
    ELSE readYamlFrom(IF _shouldUseDocument(docs[i], activeProfiles)
                      THEN extend(doc, docs[i]) ELSE doc,
                      docs, activeProfiles, i + 1)

\* _readYaml(relativePath, activeProfiles), index.js:226-244: what the
\* promise settles with, the merged document or the Error it rejects with.
_readYaml(relativePath, activeProfiles) ==
    LET file == Files(relativePath)
    IN  CASE file.kind = "missing" -> Error("ENOENT")
          [] file.kind = "malformed" -> Error("YAMLException")
          [] OTHER -> readYamlFrom(EmptyObj, file.docs, activeProfiles, 1)

\* _readYamlAsDocument(relativePath, activeProfiles), index.js:206-215.
_readYamlAsDocument(relativePath, activeProfiles) ==
    LET yamlDoc == _readYaml(relativePath, activeProfiles)
    IN  IF yamlDoc.t = "e" THEN yamlDoc ELSE _parsePropertiesToObjects(yamlDoc)

\* A forEach that puts every overlay in front of the base document.
RECURSIVE profileConfigs_overlayFirst(_, _, _, _)
profileConfigs_overlayFirst(appConfigs, appConfigPath, activeProfiles, i) ==
    IF i > Len(activeProfiles.kv) THEN appConfigs
    ELSE LET file == Files(ProfileYml(StringOf(appConfigPath),
                                      StringOf(activeProfiles.kv[i][2])))
             next == IF file.kind = "docs" /\ Len(file.docs) = 1
                     THEN <<_parsePropertiesToObjects(file.docs[1])>> \o appConfigs
                     ELSE appConfigs
         IN  profileConfigs_overlayFirst(next, appConfigPath, activeProfiles, i + 1)

\* The forEach of _readApplicationConfig, index.js:141-155: one overlay per
\* active profile; a missing file is skipped (line 152), and so is one that
\* yaml.safeLoad rejects (line 149): malformed, or more than one document.
RECURSIVE profileConfigs(_, _, _, _)
profileConfigs(appConfigs, appConfigPath, activeProfiles, i) ==
    IF i > Len(activeProfiles.kv) THEN appConfigs
    ELSE LET file == Files(ProfileYml(StringOf(appConfigPath),
                                      StringOf(activeProfiles.kv[i][2])))
             propDoc == IF Len(file.docs) = 0 THEN Undefined ELSE file.docs[1]
             next == IF file.kind = "docs" /\ Len(file.docs) <= 1
                     THEN Append(appConfigs, _parsePropertiesToObjects(propDoc))
                     ELSE appConfigs
         IN  profileConfigs(next, appConfigPath, activeProfiles, i + 1)

\* _readApplicationConfig(appConfigPath, activeProfiles), index.js:134-161:
\* the merged application config, or the Error the promise rejects with
\* (the base file cannot be read, or activeProfiles has no forEach).
_readApplicationConfig(appConfigPath, activeProfiles) ==
    LET applicationConfig ==
            _readYamlAsDocument(ApplicationYml(StringOf(appConfigPath)), activeProfiles)
    IN  IF applicationConfig.t = "e" THEN applicationConfig
        ELSE IF ~IsContainer(activeProfiles) THEN Error("TypeError")
        ELSE _mergeProperties(
                 profileConfigs(<<applicationConfig>>, appConfigPath, activeProfiles, 1))

\* The paths _readApplicationConfig hands to fs.readFileSync (lines 232, 146).
applicationReads(appConfigPath, activeProfiles) ==
    LET base == ApplicationYml(StringOf(appConfigPath))
    IN  {base} \cup
        IF Files(base).kind = "docs" /\ IsContainer(activeProfiles)
        THEN {ProfileYml(StringOf(appConfigPath), StringOf(activeProfiles.kv[i][2])) :
                i \in {j \in DOMAIN activeProfiles.kv :
                         Files(ProfileYml(StringOf(appConfigPath),
                                          StringOf(activeProfiles.kv[j][2]))).kind # "missing"}}
        ELSE {}

\* A remote stage that fetches once per instance: when an earlier pass has
\* stored a remote PropertySet it resolves with {} without calling.
_readCloudConfig_cached(bootStrapConfig, sync) ==
    LET section == GetIn(bootStrapConfig, SpringCloudConfigPath)
    IN  IF ~IsContainer(section) THEN
            [state |-> "rejected", value |-> Error("TypeError"), called |-> FALSE]
        ELSE IF Truthy(Get(section, <<"enabled">>)) /\ remoteConfig = Undefined THEN
            IF sync = "throws"
            THEN [state |-> "resolved", value |-> EmptyObj, called |-> TRUE]
            ELSE [state |-> "pending", value |-> Undefined, called |-> TRUE]
        ELSE [state |-> "resolved", value |-> EmptyObj, called |-> FALSE]

\* The executor of _readCloudConfig(bootStrapConfig), index.js:170-197, up to
\* the return of cloudConfigClient.load: "sync" says whether that call throws
\* or returns its promise.  The result is how the promise stands when the
\* executor returns, and whether the collaborator was called.
_readCloudConfig(bootStrapConfig, sync) ==
    LET section == GetIn(bootStrapConfig, SpringCloudConfigPath)
    IN  IF ~IsContainer(section) THEN
            [state |-> "rejected", value |-> Error("TypeError"), called |-> FALSE]
        ELSE IF Truthy(Get(section, <<"enabled">>)) THEN
            IF sync = "throws"
            THEN [state |-> "resolved", value |-> EmptyObj, called |-> TRUE]
            ELSE [state |-> "pending", value |-> Undefined, called |-> TRUE]
        ELSE [state |-> "resolved", value |-> EmptyObj, called |-> FALSE]

\* The two handlers on the collaborator's promise, index.js:177-189: the
\* cloudConfig the promise of _readCloudConfig is resolved with.
cloudConfigOf(result) ==
    IF result.how = "resolve" /\ Truthy(result.value)
    THEN _parsePropertiesToObjects(Obj(result.value.kv))
    ELSE EmptyObj

\* A composition that merges the local PropertySet last.
_generateConfig_localLast ==
    _mergeProperties(<<bootstrapConfig, remoteConfig, localConfig>>)

\* _generateConfig(), index.js:277-283: the new value of this._config.
_generateConfig == _mergeProperties(<<bootstrapConfig, localConfig, remoteConfig>>)

\* getConfig(), index.js:73-75.
getConfig == config

-----------------------------------------------------------------------------
(* The instance and the event loop.                                        *)
(* JavaScript runs one task to completion, then every queued promise       *)
(* continuation (microtask), before the next task.  A task is a call by    *)
(* the application, a timer callback or the settling of the remote fetch;  *)
(* the continuations of a load() call are the steps bootstrapThen ..       *)
(* composeThen below.  Calls by the application may also come from its own *)
(* promise continuations, between two continuations of a pass.             *)

\* interval: 60000 of the constructor.
DefaultInterval == 60000
\* timerId: null of the constructor; the handles setTimeout returns are
\* numbered 1, 2, ... in the order of their creation.
NoTimer == 0
\* The intervals startWatch is called with; 0 stands for a call without one.
WatchIntervals == {0, 5000}

InvalidOptionsMessage ==
    Str(<<"Invalid options supplied. Please consult the documentation.">>)

\* A load() call: where it stands, the value its next continuation receives,
\* and how its remote stage went ("none" before it, then "disabled", "threw",
\* "pending", "resolved" or "rejected").
Pass(pc, val, remote) == [pc |-> pc, val |-> val, remote |-> remote]
Idle == Pass("idle", Undefined, "none")
Done == Pass("done", Undefined, "none")
Event(type, payload) == [type |-> type, payload |-> payload]
Settled(how, value) == [how |-> how, value |-> value]
IO(paths, fetch) == [reads |-> paths, fetch |-> fetch]
NoIO == IO({}, Undefined)

\* A continuation of some load() call is queued.
MicrotaskPending ==
    \E p \in DOMAIN passes : passes[p].pc \in {"bootstrap", "local", "remote", "compose"}

watchVars == <<watchConfig, timers, fired, watchPasses, events>>

\* constructor(options), index.js:10-27.
constructor(opts) ==
    /\ options = opts
    /\ remoteConfig = Undefined
    /\ localConfig = Undefined
    /\ bootstrapConfig = Undefined
    /\ config = Undefined
    /\ watchConfig = [interval |-> DefaultInterval, running |-> FALSE, timerId |-> NoTimer]
    /\ timers = {}
    /\ fired = 0
    /\ watchPasses = 0
    /\ events = <<>>
    /\ passes = [p \in 1..MaxLoads |-> Idle]
    /\ settled = Settled("none", Undefined)
    /\ io = NoIO

Init ==
    /\ \E opts \in OptionChoices : constructor(opts)
    /\ call = [op |-> "none"]

\* A startWatch that forgets to cancel the pending timer.
clearTimeout_forgotten(pending, timerId) == pending

\* clearTimeout(this._watchConfig.timerId), index.js:33-36: a handle that
\* has fired or was cleared is no longer pending and clearing it does nothing.
clearTimeout(pending, timerId) == {t \in pending : t.id # timerId}

\* The body of startWatch(interval), index.js:30-51, on the watcher's state:
\* the new _watchConfig and the new set of pending timers.
startWatchOn(wc, pending, interval) ==
    LET newInterval == IF interval # 0 THEN interval ELSE wc.interval
        cleared == IF wc.timerId # NoTimer THEN clearTimeout(pending, wc.timerId)
                   ELSE pending
        handle == wc.timerId + 1
    IN  [wc |-> [interval |-> newInterval, running |-> TRUE, timerId |-> handle],
         pending |-> cleared \cup {[id |-> handle, delay |-> newInterval]}]

\* startWatch(interval), called by the application.
startWatch(interval) ==
    /\ watchConfig.timerId < MaxTimers
    /\ LET after == startWatchOn(watchConfig, timers, interval)
       IN  watchConfig' = after.wc /\ timers' = after.pending
    /\ io' = NoIO
    /\ UNCHANGED <<options, bootstrapConfig, localConfig, remoteConfig, config, passes,
                   settled, fired, watchPasses, events, call>>

\* endWatch(), index.js:54-56.
endWatch ==
    /\ watchConfig' = [watchConfig EXCEPT !.running = FALSE]
    /\ io' = NoIO
    /\ UNCHANGED <<options, bootstrapConfig, localConfig, remoteConfig, config, passes,
                   settled, timers, fired, watchPasses, events, call>>

\* The test of index.js:48 that decides whether the callback calls startWatch().
restarts(wc) == ~wc.running

\* The timer callback of startWatch, index.js:39-51: it starts
\* _readCloudConfig on the stored bootstrap config, then tests the running
\* flag (line 48); the handlers of lines 41-46 run as continuations of this
\* same task when the promise is already settled.
timerCallback(t, sync) ==
    /\ t \in timers
    /\ ~MicrotaskPending
    /\ ~restarts(watchConfig) \/ watchConfig.timerId < MaxTimers
    /\ LET r == _readCloudConfig(bootstrapConfig, sync)
           after == IF restarts(watchConfig)
                    THEN startWatchOn(watchConfig, timers \ {t}, 0)
                    ELSE [wc |-> watchConfig, pending |-> timers \ {t}]
       IN  /\ fired' = fired + 1
           /\ watchConfig' = after.wc
           /\ timers' = after.pending
           /\ events' = CASE r.state = "resolved" ->
                               Append(events, Event("CONFIG_REFRESH", r.value))
                          [] r.state = "rejected" ->
                               Append(events, Event("CONFIG_ERROR", r.value))
                          [] OTHER -> events
           /\ watchPasses' = IF r.state = "pending" THEN watchPasses + 1 ELSE watchPasses
           /\ io' = IO({}, IF r.called THEN GetIn(bootstrapConfig, SpringCloudConfigPath)
                           ELSE Undefined)
    /\ UNCHANGED <<options, bootstrapConfig, localConfig, remoteConfig, config, passes,
                   settled, call>>

\* The remote fetch of a watcher pass settles: index.js:177-189, then the
\* handler of lines 41-43.
watchFetchSettled(result) ==
    /\ watchPasses > 0
    /\ ~MicrotaskPending
    /\ watchPasses' = watchPasses - 1
    /\ events' = Append(events, Event("CONFIG_REFRESH", cloudConfigOf(result)))
    /\ io' = NoIO
    /\ UNCHANGED <<options, bootstrapConfig, localConfig, remoteConfig, config, passes,
                   settled, watchConfig, timers, fired, call>>

\* setOptions(options), index.js:58-60.  The loads being bounded, a change is
\* explored only while some load() call can still read _options.
setOptions(opts) ==
    /\ opts # options
    /\ \E p \in DOMAIN passes : passes[p].pc \in {"idle", "bootstrap"}
    /\ options' = opts
    /\ io' = NoIO
    /\ UNCHANGED <<bootstrapConfig, localConfig, remoteConfig, config, passes, settled,
                   watchVars, call>>

\* A test that is content with either of the two options.
validOptions_either(opts) == Truthy(opts.configPath) \/ Truthy(opts.activeProfiles)

\* The test of load(), index.js:64.
validOptions(opts) == Truthy(opts.configPath) /\ Truthy(opts.activeProfiles)

\* load(), index.js:62-71, and the synchronous start of _readConfig,
\* lines 85-88: the bootstrap file is read inside the call.  A failed read
\* reaches the catch of lines 121-124 with no handler in between.
\* The calls overlap pairwise: one is made while at most one other is in flight.
load(p) ==
    /\ passes[p].pc = "idle"
    /\ \A q \in 1..(p - 1) : passes[q].pc # "idle"
    /\ Cardinality({q \in DOMAIN passes : passes[q].pc \notin {"idle", "done"}}) <= 1
    /\ IF ~validOptions(options)
       THEN /\ settled' = Settled("rejected", InvalidOptionsMessage)
            /\ passes' = [passes EXCEPT ![p] = Done]
            /\ io' = NoIO
       ELSE LET theBootstrapPath == IF Truthy(options.bootstrapPath)
                                    THEN options.bootstrapPath ELSE options.configPath
                path == BootstrapYml(StringOf(theBootstrapPath))
                yamlDoc == _readYaml(path, options.activeProfiles)
            IN  /\ io' = IO({path}, Undefined)
                /\ IF yamlDoc.t = "e"
                   THEN settled' = Settled("rejected", yamlDoc)
                        /\ passes' = [passes EXCEPT ![p] = Done]
                   ELSE passes' = [passes EXCEPT ![p] = Pass("bootstrap", yamlDoc, "none")]
                        /\ UNCHANGED settled
    /\ UNCHANGED <<options, bootstrapConfig, localConfig, remoteConfig, config,
                   watchVars, call>>

\* A bootstrap continuation that goes on with an empty local PropertySet
\* when the base application document cannot be loaded.
bootstrapThen_lenient(p) ==
    /\ passes[p].pc = "bootstrap"
    /\ LET thisBootstrapConfig == _parsePropertiesToObjects(passes[p].val)
           applicationConfig ==
               _readApplicationConfig(options.configPath, options.activeProfiles)
       IN  IF ~IsContainer(GetIn(thisBootstrapConfig, SpringCloudConfigPath))
           THEN /\ settled' = Settled("rejected", Error("TypeError"))
                /\ passes' = [passes EXCEPT ![p] = Done]
                /\ io' = NoIO
                /\ UNCHANGED bootstrapConfig
           ELSE /\ bootstrapConfig' =
                       PutIn(thisBootstrapConfig,
                             SpringCloudConfigPath \o << <<"profiles">> >>,
                             options.activeProfiles)
                /\ io' = IO(applicationReads(options.configPath, options.activeProfiles),
                            Undefined)
                /\ passes' = [passes EXCEPT ![p] =
                                Pass("local",
                                     IF applicationConfig.t = "e" THEN EmptyObj
                                     ELSE applicationConfig, "none")]
                /\ UNCHANGED settled
    /\ UNCHANGED <<options, localConfig, remoteConfig, config, watchVars, call>>

\* The continuations of index.js:209-211 and 89-95, and the start of
\* _readApplicationConfig, whose reads are synchronous and whose own
\* continuations (lines 139-159) touch nothing but their arguments.
bootstrapThen(p) ==
    /\ passes[p].pc = "bootstrap"
    /\ LET thisBootstrapConfig == _parsePropertiesToObjects(passes[p].val)
           applicationConfig ==
               _readApplicationConfig(options.configPath, options.activeProfiles)
       IN  IF ~IsContainer(GetIn(thisBootstrapConfig, SpringCloudConfigPath))
           THEN /\ settled' = Settled("rejected", Error("TypeError"))
                /\ passes' = [passes EXCEPT ![p] = Done]
                /\ io' = NoIO
                /\ UNCHANGED bootstrapConfig
           ELSE /\ bootstrapConfig' =
                       PutIn(thisBootstrapConfig,
                             SpringCloudConfigPath \o << <<"profiles">> >>,
                             options.activeProfiles)
                /\ io' = IO(applicationReads(options.configPath, options.activeProfiles),
                            Undefined)
                /\ IF applicationConfig.t = "e"
                   THEN /\ settled' = Settled("rejected", applicationConfig)
                        /\ passes' = [passes EXCEPT ![p] = Done]
                   ELSE /\ passes' = [passes EXCEPT ![p] =
                                        Pass("local", applicationConfig, "none")]
                        /\ UNCHANGED settled
    /\ UNCHANGED <<options, localConfig, remoteConfig, config, watchVars, call>>

\* The continuation of index.js:96-108: "sync" as for _readCloudConfig.
localThen(p, sync) ==
    /\ passes[p].pc = "local"
    /\ LET applicationConfig == passes[p].val
           name == GetIn(applicationConfig, SpringCloudConfigPath \o << <<"name">> >>)
           renamed == IF Truthy(name)
                      THEN PutIn(bootstrapConfig,
                                 SpringCloudConfigPath \o << <<"name">> >>, name)
                      ELSE bootstrapConfig
           r == _readCloudConfig(renamed, sync)
       IN  /\ localConfig' = applicationConfig
           /\ bootstrapConfig' = renamed
           /\ io' = IO({}, IF r.called THEN GetIn(renamed, SpringCloudConfigPath)
                           ELSE Undefined)
           /\ passes' = [passes EXCEPT ![p] =
                           CASE r.state = "pending" ->
                                  Pass("fetching", Undefined, "pending")
                             [] r.state = "resolved" ->
                                  Pass("remote", r.value,
                                       IF r.called THEN "threw" ELSE "disabled")
                             [] OTHER -> Done]
           /\ settled' = IF r.state = "rejected" THEN Settled("rejected", r.value)
                         ELSE settled
    /\ UNCHANGED <<options, remoteConfig, config, watchVars, call>>

\* The remote fetch of a load() pass settles: index.js:177-189.
fetchSettled(p, result) ==
    /\ passes[p].pc = "fetching"
    /\ ~MicrotaskPending
    /\ passes' = [passes EXCEPT ![p] =
                    Pass("remote", cloudConfigOf(result),
                         IF result.how = "resolve" THEN "resolved" ELSE "rejected")]
    /\ io' = NoIO
    /\ UNCHANGED <<options, bootstrapConfig, localConfig, remoteConfig, config, settled,
                   watchVars, call>>

\* The settlements of the collaborator's promise for which the rejection
\* handler of index.js:186-189 throws: a rejection without a reason, whose
\* error.message (line 187) is a TypeError.
ReasonlessRejections ==
    { [how |-> "reject", value |-> Undefined],
      [how |-> "reject", value |-> Null] }

\* The remote fetch of a load() pass settles and the handler throws before
\* its resolve(cloudConfig) of line 188: the promise of _readCloudConfig
\* stays pending, and with it every later continuation of the pass.
fetchHandlerThrows(p, result) ==
    /\ passes[p].pc = "fetching"
    /\ ~MicrotaskPending
    /\ result \in ReasonlessRejections
    /\ passes' = [passes EXCEPT ![p] = Pass("hung", Undefined, "rejected")]
    /\ io' = NoIO
    /\ UNCHANGED <<options, bootstrapConfig, localConfig, remoteConfig, config, settled,
                   watchVars, call>>

\* The continuation of index.js:109-114.
remoteThen(p) ==
    /\ passes[p].pc = "remote"
    /\ remoteConfig' = passes[p].val
    /\ passes' = [passes EXCEPT ![p] = Pass("compose", Undefined, passes[p].remote)]
    /\ io' = NoIO
    /\ UNCHANGED <<options, bootstrapConfig, localConfig, config, settled, watchVars,
                   call>>

\* A last continuation that returns the composition without storing it.
composeThen_unsaved(p) ==
    /\ passes[p].pc = "compose"
    /\ settled' = Settled("resolved", _generateConfig)
    /\ passes' = [passes EXCEPT ![p] = Done]
    /\ io' = NoIO
    /\ UNCHANGED <<options, bootstrapConfig, localConfig, remoteConfig, config,
                   watchVars, call>>

\* The continuation of index.js:115-120.
composeThen(p) ==
    /\ passes[p].pc = "compose"
    /\ config' = _generateConfig
    /\ settled' = Settled("resolved", _generateConfig)
    /\ passes' = [passes EXCEPT ![p] = Done]
    /\ io' = NoIO
    /\ UNCHANGED <<options, bootstrapConfig, localConfig, remoteConfig, watchVars, call>>

\* The steps of the load() passes.
pipelineStep(p) ==
    \/ load(p)
    \/ bootstrapThen(p)
    \/ \E sync \in {"throws", "returns"} : localThen(p, sync)
    \/ \E result \in RemoteResults : fetchSettled(p, result)
    \/ remoteThen(p)
    \/ composeThen(p)

\* The steps of the watcher.
watchStep ==
    \/ \E interval \in WatchIntervals : startWatch(interval)
    \/ endWatch
    \/ \E t \in timers, sync \in {"throws", "returns"} : timerCallback(t, sync)
    \/ \E result \in RemoteResults : watchFetchSettled(result)

\* The whole program.
Next ==
    \/ \E opts \in OptionChoices : setOptions(opts)
    \/ \E p \in 1..MaxLoads : pipelineStep(p)
    \/ \E p \in 1..MaxLoads, result \in ReasonlessRejections : fetchHandlerThrows(p, result)
    \/ watchStep

Spec == Init /\ [][Next]_vars

\* The load() passes alone: the watcher never writes what they read or write.
\* The collaborator rejects with a reason here; SpecSettle adds the
\* rejections without one.
NextLoad ==
    \/ \E opts \in OptionChoices : setOptions(opts)
    \/ \E p \in 1..MaxLoads : pipelineStep(p)

SpecLoad == Init /\ [][NextLoad]_vars

\* The watcher with one load() call at a time and the options of the
\* constructor: the watcher reads nothing of a pass but _bootstrapConfig.
NextWatch ==
    \/ pipelineStep(1)
    \/ watchStep

SpecWatch == Init /\ [][NextWatch]_vars

-----------------------------------------------------------------------------
(* The watcher (checked under SpecWatch) *)

\* A step in which the timer callback ran.
TimerFired == fired' = fired + 1

\* The notification emitted last.
LastEvent(evs) == evs[Len(evs)]

\* C1: after a timer firing that finds the watcher still active, a new
\* one-shot timer for the current interval is pending, so that the polling
\* goes on for as long as the watcher stays active.
C1_ActiveWatcherReschedules ==
    [][(TimerFired /\ watchConfig.running) =>
         \E t \in timers' : t.delay = watchConfig'.interval]_vars

\* C2: a timer firing that finds the watcher inactive (endWatch was called
\* and startWatch was not called since) schedules nothing: no timer is
\* pending afterwards and the watcher stays inactive.
C2_InactiveWatcherStops ==
    [][(TimerFired /\ ~watchConfig.running) =>
         (timers' = {} /\ ~watchConfig'.running)]_vars

\* C3: a timer firing runs a whole pass, so a CONFIG_REFRESH notification
\* carries the configuration the pass composed: the merge of the bootstrap,
\* local and remote PropertySets, which is also what getConfig() returns
\* from then on.
C3_RefreshCarriesComposedConfig ==
    [][(Len(events') > Len(events) /\ LastEvent(events').type = "CONFIG_REFRESH") =>
         /\ LastEvent(events').payload =
                _mergeProperties(<<bootstrapConfig', localConfig', remoteConfig'>>)
         /\ LastEvent(events').payload = config']_vars

\* C4: at most one watcher timer is pending, and it is the one startWatch
\* installed last: startWatch cancels the pending timer before it installs
\* the new one.
C4_AtMostOneTimerPending ==
    /\ Cardinality(timers) <= 1
    /\ \A t \in timers : t.id = watchConfig.timerId

\* C4 witness: startWatch was called twice in succession before any timer
\* fired, and exactly one timer is pending.
C4_Witness ==
    /\ fired = 0
    /\ watchConfig.timerId = 2
    /\ Cardinality(timers) = 1

\* C5: no watcher pass is started while an earlier one has not settled.
C5_WatcherPassesNeverOverlap == watchPasses <= 1

-----------------------------------------------------------------------------
(* The load() passes (checked under SpecLoad) *)

\* A step in which the promise of load() call p is settled.
Completes(p) == passes[p].pc # "done" /\ passes'[p].pc = "done"

\* C6: getConfig() is undefined until a pass succeeds, a pass that succeeds
\* stores what it resolves with, and no other step (a failed pass included)
\* changes it: after a failed pass getConfig() still returns the result of
\* the last successful pass.
C6_FailedPassKeepsConfig ==
    /\ getConfig = Undefined
    /\ [][IF \E p \in DOMAIN passes : Completes(p) /\ settled'.how = "resolved"
          THEN config' = settled'.value
          ELSE config' = config]_vars

\* C6 witness: a pass has failed after an earlier pass succeeded.
C6_Witness ==
    /\ getConfig # Undefined
    /\ settled.how = "rejected"
    /\ \A p \in DOMAIN passes : passes[p].pc = "done"

\* The remote fetch of a pass failed: the collaborator threw or its promise
\* was rejected.
RemoteFailed(pass) == pass.remote \in {"threw", "rejected"}

\* C7: a failed remote fetch leaves the pass going with an empty remote
\* PropertySet, emits no notification, and the pass resolves with the
\* composition of the bootstrap and local PropertySets only.
C7_RemoteFailureIsNotFatal ==
    [][\A p \in DOMAIN passes :
         /\ (~RemoteFailed(passes[p]) /\ RemoteFailed(passes'[p])) =>
               /\ passes'[p].pc = "remote"
               /\ passes'[p].val = EmptyObj
               /\ settled' = settled
               /\ events' = events
         /\ (RemoteFailed(passes[p]) /\ Completes(p)) =>
               /\ settled' = Settled("resolved",
                                     _mergeProperties(<<bootstrapConfig, localConfig>>))
               /\ config' = settled'.value
               /\ events' = events]_vars

\* The options lack the configuration directory or the active profile list.
InvalidOptions == ~Truthy(options.configPath) \/ ~Truthy(options.activeProfiles)

\* C8: a load() call with invalid options rejects at once with the
\* invalid-options error, reads no file, contacts no remote server and
\* leaves the instance as it was.
C8_InvalidOptionsRejectAtOnce ==
    [][\A p \in DOMAIN passes :
         (passes[p].pc = "idle" /\ passes'[p].pc # "idle" /\ InvalidOptions) =>
            /\ passes'[p].pc = "done"
            /\ settled' = Settled("rejected", InvalidOptionsMessage)
            /\ io' = NoIO
            /\ UNCHANGED <<options, bootstrapConfig, localConfig, remoteConfig,
                           config, watchVars>>]_vars

\* C8 witness: a load() call with invalid options was rejected after an
\* earlier pass had resolved a configuration.
C8_Witness ==
    /\ InvalidOptions
    /\ settled = Settled("rejected", InvalidOptionsMessage)
    /\ getConfig # Undefined

-----------------------------------------------------------------------------
(* The compose stage on its own (SpecCompose): _generateConfig applied to  *)
(* every choice of three small PropertySets.                               *)

\* The sequences over S of length at most n.
SeqsUpTo(S, n) == UNION {[1..k -> S] : k \in 0..n}

Scalars == {Str(<<"1">>), Str(<<"2">>)}

\* What a PropertySet holds under its key 'a': a scalar, a mapping with or
\* without the key 'c', or a sequence.
SubTrees ==
    Scalars \cup {EmptyObj}
            \cup {Obj(<< << <<"c">>, x >> >>) : x \in Scalars}
            \cup {Arr(f) : f \in SeqsUpTo(Scalars, MaxArrayLen)}

\* A PropertySet with the keys 'a' and 'b', each present or not.
Layer(a, b) ==
    Obj((IF a = Undefined THEN <<>> ELSE << << <<"a">>, a >> >>) \o
        (IF b = Undefined THEN <<>> ELSE << << <<"b">>, b >> >>))

Layers ==
    {Layer(a, b) : a \in SubTrees \cup {Undefined}, b \in {Undefined, Str(<<"1">>)}}

\* The state the compose stage of _readConfig (index.js:115-120) starts in:
\* the three stages before it have stored their PropertySets.
InitCompose ==
    /\ options = Options(Str(<<"cfg">>), Undefined, Arr(<<Str(<<"dev">>)>>))
    /\ bootstrapConfig \in Layers
    /\ localConfig \in Layers
    /\ remoteConfig \in Layers
    /\ config = Undefined
    /\ watchConfig = [interval |-> DefaultInterval, running |-> FALSE, timerId |-> NoTimer]
    /\ timers = {}
    /\ fired = 0
    /\ watchPasses = 0
    /\ events = <<>>
    /\ passes = [p \in 1..MaxLoads |-> Idle]
    /\ settled = Settled("none", Undefined)
    /\ io = NoIO
    /\ call = [op |-> "inputs"]

\* The call of this._generateConfig(), index.js:116.
callGenerateConfig ==
    /\ call.op = "inputs"
    /\ config' = _generateConfig
    /\ call' = [op |-> "_generateConfig"]
    /\ UNCHANGED <<options, bootstrapConfig, localConfig, remoteConfig, watchVars,
                   passes, settled, io>>

NextCompose == callGenerateConfig

SpecCompose == InitCompose /\ [][NextCompose]_vars

\* The three PropertySets in the order of their precedence, lowest first.
Sources == <<bootstrapConfig, localConfig, remoteConfig>>

\* The scalars of a PropertySet with their key paths (an index of a
\* sequence counts as a key).
RECURSIVE Leaves(_, _)
Leaves(x, path) ==
    IF IsContainer(x)
    THEN UNION {Leaves(x.kv[i][2], Append(path, x.kv[i][1])) : i \in DOMAIN x.kv}
    ELSE {<<path, x>>}

\* The sources that define key path p, and the one of highest precedence.
Definers(p) == {j \in DOMAIN Sources : GetIn(Sources[j], p) # Undefined}
TopDefiner(p) == CHOOSE j \in Definers(p) : \A k \in Definers(p) : k <= j

\* C9 as stated: at every key path at which a source holds a scalar, the
\* composed configuration holds the value of the highest-precedence source
\* that defines the path (remote, else local, else bootstrap); so a key path
\* only one source defines is carried over unchanged.
C9_HighestLayerWinsPerKeyPath ==
    call.op = "_generateConfig" =>
        \A i \in DOMAIN Sources : \A leaf \in Leaves(Sources[i], <<>>) :
            LET p == leaf[1]
                top == GetIn(Sources[TopDefiner(p)], p)
            IN  ~IsContainer(top) => GetIn(config, p) = top

\* No source of higher precedence than Sources[i] interferes with key path
\* p: none defines p, and none holds at a proper prefix of p a value of
\* another kind (scalar, mapping, sequence) than Sources[i] holds there.
Unshadowed(i, p) ==
    \A j \in DOMAIN Sources :
        j > i =>
            /\ GetIn(Sources[j], p) = Undefined
            /\ \A k \in 1..(Len(p) - 1) :
                 LET q == SubSeq(p, 1, k)
                 IN  \/ GetIn(Sources[j], q) = Undefined
                     \/ GetIn(Sources[j], q).t = GetIn(Sources[i], q).t

\* C9 amended: a scalar a source holds at a key path is in the composed
\* configuration unless a source of higher precedence defines that path or
\* holds a value of another kind at a proper prefix of it (that value then
\* replaces the whole subtree of the lower sources); the composed
\* configuration holds no scalar that is not in a source.
C9_UnshadowedLeavesSurvive ==
    call.op = "_generateConfig" =>
        /\ \A i \in DOMAIN Sources : \A leaf \in Leaves(Sources[i], <<>>) :
               Unshadowed(i, leaf[1]) => GetIn(config, leaf[1]) = leaf[2]
        /\ \A leaf \in Leaves(config, <<>>) :
               \E i \in DOMAIN Sources : leaf \in Leaves(Sources[i], <<>>)

\* C9 witness: the bootstrap PropertySet alone defines a.c, the local one
\* holds a scalar at a, the remote one adds a key, and the composition has
\* lost a.c.
C9_Witness ==
    /\ call.op = "_generateConfig"
    /\ GetIn(bootstrapConfig, << <<"a">>, <<"c">> >>) = Str(<<"1">>)
    /\ Get(localConfig, <<"a">>) = Str(<<"2">>)
    /\ remoteConfig = Layer(Undefined, Str(<<"1">>))
    /\ config = Layer(Str(<<"2">>), Str(<<"1">>))

-----------------------------------------------------------------------------
(* The Profile Filter on its own (SpecFilter): _shouldUseDocument applied  *)
(* to every small document and ActiveProfiles array.                       *)

\* The atoms of a profiles string, and the names ActiveProfiles holds (the
\* empty name among them).
ProfileAtoms == {"!", ",", "dev", "prod"}
ProfileNames == {<<"dev">>, <<"prod">>, <<>>}

\* A document without a profiles field, and the documents with one.
Documents ==
    {Obj(<< << <<"key">>, Str(<<"1">>) >> >>)} \cup
    {Obj(<< << <<"profiles">>, Str(x) >>, << <<"key">>, Str(<<"1">>) >> >>) :
       x \in SeqsUpTo(ProfileAtoms, MaxProfilesLen)}

ActiveProfileArrays ==
    {Arr([i \in DOMAIN f |-> Str(f[i])]) : f \in SeqsUpTo(ProfileNames, MaxActiveProfiles)}

InitFilter ==
    /\ \E opts \in {Options(Str(<<"cfg">>), Undefined, Arr(<<Str(<<"dev">>)>>))} :
         constructor(opts)
    /\ call \in {[op |-> "inputs", document |-> d, activeProfiles |-> a,
                  out |-> Undefined] : d \in Documents, a \in ActiveProfileArrays}

\* The call of this._shouldUseDocument(document, activeProfiles),
\* index.js:233.
callShouldUseDocument ==
    /\ call.op = "inputs"
    /\ call' = [call EXCEPT
                  !.op = "_shouldUseDocument",
                  !.out = Bool(_shouldUseDocument(call.document, call.activeProfiles))]
    /\ UNCHANGED <<options, bootstrapConfig, localConfig, remoteConfig, config,
                   watchVars, passes, settled, io>>

NextFilter == callShouldUseDocument

SpecFilter == InitFilter /\ [][NextFilter]_vars

\* The tokens of a document's profiles field and the names of an
\* ActiveProfiles array.
Tokens(document) == Split(Get(document, <<"profiles">>).v, ",")
ActiveNames(activeProfiles) ==
    {activeProfiles.kv[i][2].v : i \in DOMAIN activeProfiles.kv}

\* The outcome the token rules give for a document with a profiles field:
\* excluded when a negated token names an active profile, otherwise included
\* exactly when a plain, non-empty token is an active profile.
TokenRules(document, activeProfiles) ==
    LET tokens == Tokens(document)
        names == ActiveNames(activeProfiles)
        negated(tok) == tok # <<>> /\ Head(tok) = "!"
    IN  /\ ~\E i \in DOMAIN tokens : negated(tokens[i]) /\ Tail(tokens[i]) \in names
        /\ \E i \in DOMAIN tokens :
             tokens[i] # <<>> /\ ~negated(tokens[i]) /\ tokens[i] \in names

\* C10 as stated: a document without a profiles field is included, and a
\* document with one is included exactly as the token rules say.
C10_ProfileFilterRules ==
    call.op = "_shouldUseDocument" =>
        call.out = Bool(IF ~Has(call.document, <<"profiles">>) THEN TRUE
                        ELSE TokenRules(call.document, call.activeProfiles))

\* C10 amended: a document without a profiles field, or whose profiles
\* field is the empty string, is included; any other document is included
\* exactly as the token rules say.
C10_ProfileFilterRulesEmptyField ==
    call.op = "_shouldUseDocument" =>
        call.out = Bool(IF ~Has(call.document, <<"profiles">>) THEN TRUE
                        ELSE IF Get(call.document, <<"profiles">>) = Str(<<>>) THEN TRUE
                        ELSE TokenRules(call.document, call.activeProfiles))

\* C10 witness: a document whose profiles field is the empty string was
\* included although no token of it names an active profile.
C10_Witness ==
    /\ call.op = "_shouldUseDocument"
    /\ Get(call.document, <<"profiles">>) = Str(<<>>)
    /\ call.activeProfiles = Arr(<<Str(<<"dev">>)>>)
    /\ call.out = Bool(TRUE)


\* C11: a document whose profiles field consists of negated tokens only,
\* none of them naming an active profile, is included.
C11_NegatedOnlyIsIncluded ==
    (/\ call.op = "_shouldUseDocument"
     /\ Has(call.document, <<"profiles">>)
     /\ \A i \in DOMAIN Tokens(call.document) :
          LET tok == Tokens(call.document)[i]
          IN  /\ tok # <<>>
              /\ Head(tok) = "!"
              /\ Tail(tok) \notin ActiveNames(call.activeProfiles))
    => call.out = Bool(TRUE)


-----------------------------------------------------------------------------
(* The PropertyTree Merger on its own (SpecMerge): _mergeProperties        *)
(* applied to every short sequence of small PropertySets.                  *)

InitMerge ==
    /\ \E opts \in {Options(Str(<<"cfg">>), Undefined, Arr(<<Str(<<"dev">>)>>))} :
         constructor(opts)
    /\ call \in {[op |-> "inputs", objects |-> objs, out |-> Undefined] :
                   objs \in SeqsUpTo(Layers, MaxInputs)}

\* A call of this._mergeProperties(objects), index.js:157 and 278.
callMergeProperties ==
    /\ call.op = "inputs"
    /\ call' = [call EXCEPT !.op = "_mergeProperties",
                            !.out = _mergeProperties(call.objects)]
    /\ UNCHANGED <<options, bootstrapConfig, localConfig, remoteConfig, config,
                   watchVars, passes, settled, io>>

NextMerge == callMergeProperties

SpecMerge == InitMerge /\ [][NextMerge]_vars

\* The merge of one incoming PropertySet into an existing one, key by key:
\* where both hold a value of the same kind among kinds ("o" a mapping,
\* "a" a sequence) the two are merged recursively, otherwise the incoming
\* value overwrites.
RECURSIVE MergeRule(_, _, _, _)
MergeRule(kinds, existing, incoming, i) ==
    IF i > Len(incoming.kv) THEN existing
    ELSE LET key == incoming.kv[i][1]
             new == incoming.kv[i][2]
             old == Get(existing, key)
             merged == IF old.t = new.t /\ new.t \in kinds
                       THEN MergeRule(kinds, old, new, 1)
                       ELSE new
         IN  MergeRule(kinds, Put(existing, key, merged), incoming, i + 1)

\* The rule applied to a sequence of inputs, in order, from the empty set.
RECURSIVE MergeAll(_, _, _)
MergeAll(kinds, objects, n) ==
    IF n = 0 THEN EmptyObj
    ELSE MergeRule(kinds, MergeAll(kinds, objects, n - 1), objects[n], 1)

\* Every key of every input is a key of the result, and two inputs that hold
\* different scalars at a key give another result when they are swapped.
KeysKeptAndOrderMatters ==
    /\ \A i \in DOMAIN call.objects : Keys(call.objects[i]) \subseteq Keys(call.out)
    /\ (/\ Len(call.objects) = 2
        /\ \E k \in Keys(call.objects[1]) \cap Keys(call.objects[2]) :
             /\ ~IsContainer(Get(call.objects[1], k))
             /\ ~IsContainer(Get(call.objects[2], k))
             /\ Get(call.objects[1], k) # Get(call.objects[2], k))
       => _mergeProperties(<<call.objects[2], call.objects[1]>>) # call.out

\* C12 as stated: the result is the inputs merged in order, recursively
\* where both values are PropertySets (mappings) and overwriting otherwise;
\* no key is lost and the order of the inputs matters.
C12_LaterInputOverwrites ==
    call.op = "_mergeProperties" =>
        /\ call.out = MergeAll({"o"}, call.objects, Len(call.objects))
        /\ KeysKeptAndOrderMatters

\* C12 amended: as stated, but two sequences at the same key are merged
\* too, element by element (the incoming elements overwrite by index and the
\* existing elements beyond them stay).
C12_SequencesMergeByIndex ==
    call.op = "_mergeProperties" =>
        /\ call.out = MergeAll({"o", "a"}, call.objects, Len(call.objects))
        /\ KeysKeptAndOrderMatters

\* C12 witness: an empty sequence was merged over a sequence of one element,
\* and the element is still there.
C12_Witness ==
    /\ call.op = "_mergeProperties"
    /\ Len(call.objects) = 2
    /\ Get(call.objects[1], <<"a">>) = Arr(<<Str(<<"1">>)>>)
    /\ Get(call.objects[2], <<"a">>) = Arr(<<>>)
    /\ Get(call.out, <<"a">>) = Arr(<<Str(<<"1">>)>>)


-----------------------------------------------------------------------------
(* The Document Loader on its own (SpecDocs): _readYamlAsDocument applied  *)
(* to every short sequence of small documents, all of them retained.       *)

\* The entries of a raw document: the key path a.b spelled with the
\* separator, and the key a with a scalar, a mapping, or a mapping whose
\* own key holds the separator.
DottedEntries == {<< <<"a", ".", "b">>, x >> : x \in Scalars}
NestedEntries ==
    {<< <<"a">>, x >> :
       x \in {Str(<<"1">>)} \cup {Obj(<< << <<"b">>, y >> >>) : y \in Scalars}
                           \cup {Obj(<< << <<"b", ".", "c">>, Str(<<"1">>) >> >>)}}

RawDocuments == {Obj(<<e>>) : e \in DottedEntries \cup NestedEntries}

InitDocs ==
    /\ \E opts \in {Options(Str(<<"cfg">>), Undefined, Arr(<<Str(<<"dev">>)>>))} :
         constructor(opts)
    /\ call \in {[op |-> "inputs", docs |-> ds, out |-> Undefined] :
                   ds \in SeqsUpTo(RawDocuments, MaxDocs)}

\* _readYamlAsDocument on a source with the documents call.docs:
\* index.js:232-236 merges them, index.js:210 expands the merged document.
callReadYamlAsDocument ==
    /\ call.op = "inputs"
    /\ call' = [call EXCEPT
                  !.op = "_readYamlAsDocument",
                  !.out = _parsePropertiesToObjects(
                              readYamlFrom(EmptyObj, call.docs, options.activeProfiles, 1))]
    /\ UNCHANGED <<options, bootstrapConfig, localConfig, remoteConfig, config,
                   watchVars, passes, settled, io>>

NextDocs == callReadYamlAsDocument

SpecDocs == InitDocs /\ [][NextDocs]_vars

\* No key of x, at any depth, holds the separator.
RECURSIVE SeparatorFree(_)
SeparatorFree(x) ==
    IsContainer(x) =>
        \A i \in DOMAIN x.kv :
            /\ \A j \in DOMAIN x.kv[i][1] : x.kv[i][1][j] # "."
            /\ SeparatorFree(x.kv[i][2])

\* C13: after the expansion no key of the PropertySet, at any depth, holds
\* the separator.
C13_NoSeparatorInKeys ==
    call.op = "_readYamlAsDocument" => SeparatorFree(call.out)

\* x and y are the same tree, whatever the order of their keys.
RECURSIVE SameTree(_, _)
SameTree(x, y) ==
    IF IsContainer(x) /\ IsContainer(y)
    THEN /\ x.t = y.t
         /\ Keys(x) = Keys(y)
         /\ \A k \in Keys(x) : SameTree(Get(x, k), Get(y, k))
    ELSE x = y

\* The value the last document that mentions key path a.b gives it, under
\* either spelling; none when a later document holds a scalar at a.
RECURSIVE LastValue(_, _)
LastValue(docs, n) ==
    IF n = 0 THEN Undefined
    ELSE LET expanded == _parsePropertiesToObjects(docs[n])
             value == GetIn(expanded, << <<"a">>, <<"b">> >>)
         IN  IF value # Undefined THEN value
             ELSE IF Has(expanded, <<"a">>) /\ ~IsContainer(Get(expanded, <<"a">>))
             THEN Undefined
             ELSE LastValue(docs, n - 1)

\* C18: merging the raw documents and expanding the result gives the same
\* tree as expanding every document and merging the expanded documents in
\* order, and the value of a key path is the one its last document gives.
C18_ExpandAndMergeCommute ==
    call.op = "_readYamlAsDocument" =>
        /\ SameTree(call.out,
                    _mergeProperties([i \in DOMAIN call.docs |->
                                        _parsePropertiesToObjects(call.docs[i])]))
        /\ LET last == LastValue(call.docs, Len(call.docs))
           IN  last # Undefined => GetIn(call.out, << <<"a">>, <<"b">> >>) = last


-----------------------------------------------------------------------------
(* The stages of a load() pass (checked under SpecLoad) *)

\* The overlays of the first n active profiles, in their order: the
\* expanded document of every overlay file that is there and well formed.
RECURSIVE Overlays(_, _, _)
Overlays(appConfigPath, activeProfiles, n) ==
    IF n = 0 THEN <<>>
    ELSE LET file == Files(ProfileYml(StringOf(appConfigPath),
                                      StringOf(activeProfiles.kv[n][2])))
         IN  Overlays(appConfigPath, activeProfiles, n - 1) \o
             (IF file.kind = "docs"
              THEN <<_parsePropertiesToObjects(IF file.docs = <<>> THEN EmptyObj
                                               ELSE file.docs[1])>>
              ELSE <<>>)

\* The base application document set of the current options, and whether
\* the pass that holds val as its bootstrap document can go on with it.
BaseDocument ==
    _readYamlAsDocument(ApplicationYml(StringOf(options.configPath)), options.activeProfiles)
LocalStageCanRun(val) ==
    /\ IsContainer(GetIn(_parsePropertiesToObjects(val), SpringCloudConfigPath))
    /\ BaseDocument.t # "e"
    /\ IsContainer(options.activeProfiles)

\* C14: when the base application document can be loaded, the local stage
\* does not fail, whatever the overlay files are, and its result (which
\* the pass stores as its local PropertySet) is the merge of the base
\* document and, in the order of the active profiles, the overlays that are
\* there and well formed.
C14_LocalStageSkipsBadOverlays ==
    [][\A p \in DOMAIN passes :
         /\ (passes[p].pc = "bootstrap" /\ passes'[p].pc # "bootstrap"
             /\ LocalStageCanRun(passes[p].val)) =>
               /\ passes'[p].pc = "local"
               /\ passes'[p].val =
                      _mergeProperties(<<BaseDocument>> \o
                                       Overlays(options.configPath, options.activeProfiles,
                                                Len(options.activeProfiles.kv)))
         /\ (passes[p].pc = "local" /\ passes'[p].pc # "local") =>
               localConfig' = passes[p].val]_vars

\* C14 witness: a pass with the active profiles qa (no overlay file) and bad
\* (a malformed overlay file) has resolved, its local PropertySet being the
\* base document alone.
C14_Witness ==
    /\ options.activeProfiles = Arr(<<Str(<<"qa">>), Str(<<"bad">>)>>)
    /\ Files(ProfileYml(<<"cfg">>, <<"qa">>)).kind = "missing"
    /\ Files(ProfileYml(<<"cfg">>, <<"bad">>)).kind = "malformed"
    /\ settled.how = "resolved"
    /\ localConfig = BaseDocument
    /\ \A p \in DOMAIN passes : passes[p].pc \in {"idle", "done"}


\* The place of a position in the order of the stages.
StageRank(pc) ==
    CASE pc = "idle" -> 0
      [] pc = "bootstrap" -> 1
      [] pc = "local" -> 2
      [] pc = "fetching" -> 3
      [] pc = "remote" -> 4
      [] pc = "compose" -> 5
      [] OTHER -> 6

\* The bootstrap source of a load() call made now cannot be loaded.
BootstrapUnreadable ==
    Files(BootstrapYml(StringOf(IF Truthy(options.bootstrapPath) THEN options.bootstrapPath
                                ELSE options.configPath))).kind # "docs"

\* Pass p has failed in this step: its promise is rejected with an error,
\* no remote fetch is issued and nothing is composed.
FailsHere(p) ==
    /\ passes'[p].pc = "done"
    /\ settled'.how = "rejected"
    /\ settled'.value.t = "e"
    /\ io'.fetch = Undefined
    /\ config' = config

\* C16: a pass moves through bootstrap, local, remote, compose in this
\* order and never back; the remote fetch is issued only by the step that
\* holds the local result and the configuration is composed only by the
\* step after the remote stage; a pass whose bootstrap or base local load
\* fails ends there, rejected with that error.
C16_StagesRunInOrder ==
    [][/\ \A p \in DOMAIN passes :
            /\ passes'[p].pc # passes[p].pc =>
                  /\ StageRank(passes'[p].pc) > StageRank(passes[p].pc)
                  /\ \/ passes'[p].pc = "done"
                     \/ StageRank(passes'[p].pc) = StageRank(passes[p].pc) + 1
                     \/ passes[p].pc = "local" /\ passes'[p].pc = "remote"
            /\ (passes[p].pc = "idle" /\ passes'[p].pc # "idle"
                /\ ~InvalidOptions /\ BootstrapUnreadable) => FailsHere(p)
            /\ (passes[p].pc = "bootstrap" /\ passes'[p].pc # "bootstrap"
                /\ ~LocalStageCanRun(passes[p].val)) => FailsHere(p)
       /\ io'.fetch # Undefined =>
            \E p \in DOMAIN passes : passes[p].pc = "local" /\ passes'[p].pc # "local"
       /\ config' # config =>
            \E p \in DOMAIN passes : passes[p].pc = "compose" /\ Completes(p)]_vars

\* C16 witness: the only pass so far loaded its bootstrap document and
\* failed at the base application document; nothing was fetched or composed.
C16_Witness ==
    /\ bootstrapConfig # Undefined
    /\ localConfig = Undefined
    /\ BaseDocument = Error("ENOENT")
    /\ settled = Settled("rejected", Error("ENOENT"))
    /\ passes[1].pc = "done"
    /\ passes[2].pc = "idle"
    /\ config = Undefined


-----------------------------------------------------------------------------
(* What a load() pass loads when it runs alone, as a function of the       *)
(* options at the load() call (o1) and at the bootstrap continuation (o2). *)

\* The bootstrap PropertySet with the active profiles injected; undefined
\* when the bootstrap stage fails.
OwnBootstrap(o1, o2) ==
    LET thisBootstrapConfig ==
            _readYamlAsDocument(
                BootstrapYml(StringOf(IF Truthy(o1.bootstrapPath) THEN o1.bootstrapPath
                                      ELSE o1.configPath)),
                o1.activeProfiles)
    IN  IF IsContainer(GetIn(thisBootstrapConfig, SpringCloudConfigPath))
        THEN PutIn(thisBootstrapConfig, SpringCloudConfigPath \o << <<"profiles">> >>,
                   o2.activeProfiles)
        ELSE Undefined

\* The local PropertySet, or the error of the local stage.
OwnLocal(o2) == _readApplicationConfig(o2.configPath, o2.activeProfiles)

\* The bootstrap PropertySet after the name override of the local stage.
OwnRenamed(o1, o2) ==
    LET name == GetIn(OwnLocal(o2), SpringCloudConfigPath \o << <<"name">> >>)
    IN  IF Truthy(name)
        THEN PutIn(OwnBootstrap(o1, o2), SpringCloudConfigPath \o << <<"name">> >>, name)
        ELSE OwnBootstrap(o1, o2)

\* The pairs of options with which a pass reaches its remote stage, and
\* those with which it calls the collaborator.
RunningPairs ==
    {pair \in OptionChoices \X OptionChoices :
       /\ validOptions(pair[1])
       /\ OwnBootstrap(pair[1], pair[2]) # Undefined
       /\ OwnLocal(pair[2]).t # "e"}
FetchingPairs ==
    {pair \in RunningPairs :
       Truthy(GetIn(OwnRenamed(pair[1], pair[2]),
                    SpringCloudConfigPath \o << <<"enabled">> >>))}

\* The options a pass of its own hands to the collaborator, and the
\* configurations a pass of its own resolves with.
OwnFetchOptions ==
    {GetIn(OwnRenamed(pair[1], pair[2]), SpringCloudConfigPath) : pair \in FetchingPairs}
OwnConfigs ==
    UNION {{_mergeProperties(<<OwnRenamed(pair[1], pair[2]), OwnLocal(pair[2]), remote>>) :
              remote \in {EmptyObj} \cup
                         (IF pair \in FetchingPairs
                          THEN {cloudConfigOf(result) : result \in RemoteResults}
                          ELSE {})} :
           pair \in RunningPairs}

\* C17: the options the collaborator receives are those of the pass that
\* calls it: the remote section of its own bootstrap document, with its
\* ActiveProfiles as profiles and with the name of its own local result
\* when that defines one.  (Stated as: they are options that some pass,
\* loading everything itself, hands over.)
C17_FetchOptionsAreThePassesOwn ==
    [][io'.fetch # Undefined =>
         /\ io'.fetch \in OwnFetchOptions
         /\ \A p \in DOMAIN passes :
              (passes[p].pc = "local" /\ passes'[p].pc # "local"
               /\ Truthy(GetIn(passes[p].val, SpringCloudConfigPath \o << <<"name">> >>)))
              => Get(io'.fetch, <<"name">>) =
                     GetIn(passes[p].val, SpringCloudConfigPath \o << <<"name">> >>)]_vars

\* C19: the PropertySet a pass resolves with is the merge of the bootstrap,
\* local and remote PropertySets this pass loaded.  (Stated as: it is a
\* configuration that some pass, loading everything itself, composes.)
C19_PassesDoNotMix ==
    [][\A p \in DOMAIN passes :
         (Completes(p) /\ settled'.how = "resolved") => settled'.value \in OwnConfigs]_vars


-----------------------------------------------------------------------------
(* load() called again on the same instance (checked under SpecTwice).     *)
(* The options and the files stay as they are and the collaborator is a    *)
(* deterministic stub: it throws or returns, and settles, the same way on  *)
(* every call.  A load() call is made when no other is in flight.          *)

InitTwice ==
    /\ \E opts \in OptionChoices : constructor(opts)
    /\ call \in [op : {"stub"}, sync : {"throws", "returns"}, result : RemoteResults]

\* load(), called when every earlier call has settled.
loadAlone(p) ==
    /\ \A q \in DOMAIN passes : passes[q].pc \in {"idle", "done"}
    /\ load(p)

NextTwice ==
    \/ \E p \in 1..MaxLoads : loadAlone(p)
    \/ \E p \in 1..MaxLoads : bootstrapThen(p)
    \/ \E p \in 1..MaxLoads : localThen(p, call.sync)
    \/ \E p \in 1..MaxLoads : fetchSettled(p, call.result)
    \/ \E p \in 1..MaxLoads : remoteThen(p)
    \/ \E p \in 1..MaxLoads : composeThen(p)

SpecTwice == InitTwice /\ [][NextTwice]_vars

\* C15: a later load() call with the same options, files and stub settles
\* exactly as the call before it did: it resolves with the same composed
\* PropertySet (or rejects with the same error), and stores that PropertySet
\* as the configuration; what the earlier pass left in the instance does
\* not change the outcome.
C15_SecondPassSettlesAlike ==
    [][\A p \in DOMAIN passes :
         (p > 1 /\ Completes(p)) =>
            /\ settled' = settled
            /\ settled'.how = "resolved" => config' = settled.value /\ config' = config]_vars

\* Two passes have resolved with a configuration that holds the properties
\* the stub delivered.
C15_Witness ==
    /\ passes[1].pc = "done" /\ passes[2].pc = "done"
    /\ settled.how = "resolved"
    /\ call.sync = "returns" /\ call.result.value = RemoteProperties
    /\ Has(settled.value, <<"remote">>)


-----------------------------------------------------------------------------
(* Every load() call settles (checked under SpecSettle).                   *)
(* The options stay those of the constructor.  The event loop runs every   *)
(* queued continuation, and the collaborator settles every promise it      *)
(* returned, with any of RemoteResults or without a reason.                *)

\* The promise of the collaborator settles, one way or another.
collaboratorSettles(p) ==
    \/ \E result \in RemoteResults : fetchSettled(p, result)
    \/ \E result \in ReasonlessRejections : fetchHandlerThrows(p, result)

NextSettle ==
    \/ \E p \in 1..MaxLoads : load(p)
    \/ \E p \in 1..MaxLoads : bootstrapThen(p)
    \/ \E p \in 1..MaxLoads, sync \in {"throws", "returns"} : localThen(p, sync)
    \/ \E p \in 1..MaxLoads : collaboratorSettles(p)
    \/ \E p \in 1..MaxLoads : remoteThen(p)
    \/ \E p \in 1..MaxLoads : composeThen(p)

\* A continuation of pass p that composes PropertySets is queued: it is
\* enabled exactly then, and running it takes it off the queue.
ComposingQueued(p) == passes[p].pc \in {"bootstrap", "local", "compose"}

\* Weak fairness of every continuation and of the collaborator.  For the
\* three continuations that compose PropertySets, WF_vars(A) is written out
\* as []<>(~ENABLED <<A>>_vars) with the enabling condition above: each of
\* them disables itself, so []<> <<A>>_vars adds nothing.
SpecSettle ==
    /\ Init
    /\ [][NextSettle]_vars
    /\ \A p \in 1..MaxLoads :
         /\ []<>(~ComposingQueued(p))
         /\ WF_vars(collaboratorSettles(p))
         /\ WF_vars(remoteThen(p))

\* C20: every load() call that was made eventually settles, whatever the
\* bootstrap read, the local read and the remote fetch come to, as long as
\* the collaborator settles the promise it returned.
C20_EveryLoadSettles ==
    \A p \in 1..MaxLoads : (passes[p].pc # "idle") ~> (passes[p].pc = "done")

=============================================================================
